---------------------------- MODULE Spec2Model ----------------------------
(***************************************************************************)
(* Model of the Mask R-CNN control pipeline of lib/model.py (MaskRCNN) and *)
(* of the Scale Router of lib/sub_module.py (Dev).                         *)
(*                                                                         *)
(* Tensors are functions over their index sets.  Networks that the source  *)
(* only calls (fpn, rpn, classifier, mask, CropAndResizeFunction, the      *)
(* loss functions, proposal_layer, detection_layer, prepare_*_target) are  *)
(* uninterpreted: their results are symbolic terms recording the callee    *)
(* and its arguments, or values drawn from bounded sets.                   *)
(*                                                                         *)
(* Floating point numbers are binary floats with a MantBits-bit            *)
(* significand and round-to-nearest-even, held as reduced fractions        *)
(* <<numerator, denominator>>.  float32 has 24 bits; the model keeps the   *)
(* rounding behaviour with a narrower significand so that TLC's 32-bit     *)
(* integers can carry the products.                                        *)
(***************************************************************************)
EXTENDS Integers, Sequences, FiniteSets, TLC

VARIABLES
    cfg,          \* config: [use_dev (DEV.SWITCH), bn_learn (TRAIN.BN_LEARN)]
    training,     \* nn.Module.training flags: [net, bn]
    buffer,       \* self.buffer: slots 1..K (oldest first), each [val, src]
    buffer_cnt,   \* self.buffer_cnt: slots 1..K, each [val, src]
    fed,          \* per class: the descriptor fed at every step so far, and the counts' sum
    nsteps,       \* number of meta_loss calls so far
    nwrites,      \* number of times a meta_loss call stored into the buffer pair
    call,         \* the operation that ran last
    arg,          \* its arguments
    ret,          \* what it returned or raised
    trace,        \* the collaborators it called, in order
    history       \* the modes of the forward calls so far, where they are recorded

vars == <<cfg, training, buffer, buffer_cnt, fed, nsteps, nwrites, call, arg, ret, trace,
          history>>

---------------------------------------------------------------------------
(* Bounds of the model *)

MaxSteps == 3        \* meta_loss calls per behaviour
MaxBufferSize == 3   \* largest buffer capacity K explored (self.buffer.size(0))
MaxCnt == 3          \* largest per-cell observation count
GpuNum == 1          \* first axis of the gathered feat_input tensors
MantBits == 5        \* bits of the floating point significand

ScaleNum == 2        \* second axis of big_feat/big_cnt/small_feat/small_cnt

Classes == {0, 1, 2}     \* config.DATASET.NUM_CLASSES classes, 0 the background
Descriptors == {4, 13}   \* descriptor values fed to the tracker (one channel)
Gpus == 1..GpuNum
Scales == 1..ScaleNum

---------------------------------------------------------------------------
(* Exact fractions *)

Abs(x) == IF x < 0 THEN -x ELSE x

RECURSIVE GCD(_, _)
GCD(a, b) == IF b = 0 THEN a ELSE GCD(b, a % b)

Rat(n, d) == LET g == GCD(Abs(n), d) IN <<n \div g, d \div g>>

Zero == <<0, 1>>
R(n) == <<n, 1>>

RAdd(a, b) == Rat(a[1] * b[2] + b[1] * a[2], a[2] * b[2])
RSub(a, b) == Rat(a[1] * b[2] - b[1] * a[2], a[2] * b[2])
RMul(a, b) == Rat(a[1] * b[1], a[2] * b[2])
RDiv(a, b) == IF b[1] < 0 THEN Rat(-(a[1] * b[2]), a[2] * (-b[1]))
                          ELSE Rat(a[1] * b[2], a[2] * b[1])
RLeq(a, b) == a[1] * b[2] <= b[1] * a[2]
RAbs(a) == <<Abs(a[1]), a[2]>>

(* The binary exponent e with lo <= (a/d) / 2^e < hi, searched from e. *)
RECURSIVE Exponent(_, _, _, _, _)
Exponent(a, d, e, lo, hi) ==
    LET num == IF e < 0 THEN a * 2^(-e) ELSE a
        den == IF e < 0 THEN d ELSE d * 2^e
    IN IF num >= hi * den THEN Exponent(a, d, e + 1, lo, hi)
       ELSE IF num < lo * den THEN Exponent(a, d, e - 1, lo, hi)
       ELSE e

(* Rounding of the exact value q to the nearest binary float with a       *)
(* significand of the given number of bits, ties to even: q = s * 2^e      *)
(* with 2^(bits-1) <= |s| < 2^bits, and s is rounded to the integer m.     *)
Signed(q, e, m) ==
    IF e < 0 THEN Rat((IF q[1] < 0 THEN -m ELSE m), 2^(-e))
    ELSE Rat((IF q[1] < 0 THEN -m ELSE m) * 2^e, 1)

HalfEven(q, e, num, den) ==
    Signed(q, e, IF 2 * (num % den) > den THEN (num \div den) + 1
                 ELSE IF 2 * (num % den) = den THEN (num \div den) + ((num \div den) % 2)
                 ELSE num \div den)

Nearest(q, e) ==
    HalfEven(q, e, IF e < 0 THEN Abs(q[1]) * 2^(-e) ELSE Abs(q[1]),
                   IF e < 0 THEN q[2] ELSE q[2] * 2^e)

RoundTo(q, bits) ==
    IF q[1] = 0 THEN Zero
    ELSE IF q[2] = 1 /\ q[1] < 2^bits /\ -q[1] < 2^bits THEN q
    ELSE Nearest(q, Exponent(Abs(q[1]), q[2], 0, 2^(bits - 1), 2^bits))

(* The arithmetic of the tracker's tensors, at the model's precision *)
Fl(q) == RoundTo(q, MantBits)

FAdd(a, b) == Fl(RAdd(a, b))
FSub(a, b) == Fl(RSub(a, b))
FMul(a, b) == Fl(RMul(a, b))
FDiv(a, b) == Fl(RDiv(a, b))

(* x / (c + EPS) with EPS = 10e-20.  A count c is a sum of box counts, so  *)
(* c = 0 or c >= 1; for c >= 1 the float sum c + EPS is c (EPS is far      *)
(* below half an ulp of 1), and for c = 0 the numerator, a sum of          *)
(* products with zero counts, is 0 and 0 / EPS = 0.                        *)
DivEps(x, c) ==
    CASE c = Zero /\ x = Zero -> Zero
      [] RLeq(R(1), c)        -> FDiv(x, c)

RECURSIVE FSum(_)
FSum(seq) ==
    IF Len(seq) = 0 THEN Zero
    ELSE IF Len(seq) = 1 THEN seq[1]
    ELSE FAdd(FSum(SubSeq(seq, 1, Len(seq) - 1)), seq[Len(seq)])

---------------------------------------------------------------------------
(* Cross-scale consistency tracker: MaskRCNN.meta_loss                     *)
(*                                                                         *)
(* A feature tensor [gpu, scale, 1024, cls] is modelled by one of its      *)
(* 1024 channels, t[g][s][c]; every step of meta_loss but the final mean   *)
(* acts on each channel alone.  A count tensor [gpu, scale, 1, cls] is     *)
(* t[g][s][c].                                                             *)

ZeroVec == [c \in Classes |-> Zero]

(* torch.sum(torch.sum(t, dim=0), dim=0) *)
SumGpuScale(t) ==
    [c \in Classes |-> FSum([s \in Scales |-> FSum([g \in Gpus |-> t[g][s][c]])])]

Merged(feat_avg_sum, cnt_sum) ==
    [feat |-> [c \in Classes |-> DivEps(feat_avg_sum[c], cnt_sum[c])],
     cnt |-> cnt_sum]

merge_feat_vec(box_feat, box_cnt) ==
    Merged(SumGpuScale([g \in Gpus |-> [s \in Scales |-> [c \in Classes |->
                           FMul(box_feat[g][s][c], box_cnt[g][s][c])]]]),
           SumGpuScale(box_cnt))

(* The reference average over the slots:                                   *)
(* torch.sum(buffer * buffer_cnt, dim=0) / (torch.sum(buffer_cnt, dim=0) + EPS) *)
SlotAverage(buf, cnt) ==
    [c \in Classes |->
        DivEps(FSum([i \in 1..Len(buf) |-> FMul(buf[i].val[c], cnt[i].val[c])]),
               FSum([i \in 1..Len(cnt) |-> cnt[i].val[c]]))]

Updated(new_buf, new_cnt, final_big_feat) ==
    [buffer |-> new_buf, buffer_cnt |-> new_cnt, final_big_feat |-> final_big_feat,
     writes |-> 1]

Written(new_buf, new_cnt) == Updated(new_buf, new_cnt, SlotAverage(new_buf, new_cnt))

(* t[:-1] = t[1:], the copy of slots 2..K of t onto slots 1..K-1 of t      *)
(* itself.  At K = 2 source and destination are disjoint.  At K >= 3 they  *)
(* overlap: the copy of a tensor onto an overlapping part of its own       *)
(* storage has no defined result, and slot i can receive slot i+1 as it    *)
(* was or as the copy has already rewritten it, that is any later slot.    *)
(* The copy proceeds in blocks of storage; the cells of one slot that the  *)
(* model keeps (the classes of one channel) are adjacent in storage and    *)
(* are taken from the same source slot.  The outcomes are the sequences of *)
(* the slots i..K-1 after the copy.                                        *)
RECURSIVE Shifted(_, _)
Shifted(t, i) ==
    IF i >= Len(t) THEN {<<>>}
    ELSE {<<t[from]>> \o rest : from \in (i + 1)..Len(t), rest \in Shifted(t, i + 1)}

(* The sliding window: shift, then t[-1] = vec *)
Window(t, vec, step) == {Append(sh, [val |-> vec, src |-> {step}]) : sh \in Shifted(t, 1)}

Windowed(buf, cnt, big, step) ==
    {Written(new_buf, new_cnt) :
        new_buf \in Window(buf, big.feat, step), new_cnt \in Window(cnt, big.cnt, step)}

(* buffer_size == 1, use all historic data: the slot after                 *)
(* buffer_cnt += big_cnt and buffer = feat_sum / (buffer_cnt + EPS)        *)
Accumulated(buf, cnt, feat_sum, new_cnt, step) ==
    Updated(<<[val |-> [c \in Classes |-> DivEps(feat_sum[c], new_cnt[c])],
               src |-> buf[1].src \cup {step}]>>,
            <<[val |-> new_cnt, src |-> cnt[1].src \cup {step}]>>,
            [c \in Classes |-> DivEps(feat_sum[c], new_cnt[c])])

Accumulate(buf, cnt, big, step) ==
    Accumulated(buf, cnt,
        [c \in Classes |-> FAdd(FMul(buf[1].val[c], cnt[1].val[c]),
                                FMul(big.feat[c], big.cnt[c]))],
        [c \in Classes |-> FAdd(cnt[1].val[c], big.cnt[c])],
        step)

(* update_buffer that overwrites the single slot instead of accumulating.  *)
update_buffer_overwrite(buf, cnt, big, step) == Windowed(buf, cnt, big, step)

(* update_buffer that leaves the buffer alone when no big object was seen. *)
update_buffer_skip_empty(buf, cnt, big, step) ==
    IF big.cnt = ZeroVec THEN {Updated(buf, cnt, SlotAverage(buf, cnt))}
    ELSE IF Len(buf) = 1 THEN {Accumulate(buf, cnt, big, step)}
    ELSE Windowed(buf, cnt, big, step)

(* The buffer update of meta_loss, big being the merged big-object         *)
(* features and counts: the set of its possible results.  Each slot        *)
(* carries, beside its values, the set src of the steps its values were    *)
(* computed from.                                                          *)
update_buffer(buf, cnt, big, step) ==
    IF Len(buf) = 1 THEN {Accumulate(buf, cnt, big, step)}
    ELSE Windowed(buf, cnt, big, step)

(* zero_background that clears the entry after the background's. *)
zero_background_off_by_one(small_cnt) == [small_cnt EXCEPT ![1] = Zero]

(* final_small_cnt.data[0][0] = 0 *)
zero_background(small_cnt) == [small_cnt EXCEPT ![0] = Zero]

(* torch.nonzero(final_small_cnt.squeeze()).squeeze().data: the classes    *)
(* with a nonzero count, ascending.                                        *)
RECURSIVE Ascending(_)
Ascending(S) ==
    IF S = {} THEN <<>>
    ELSE LET m == CHOOSE x \in S : \A y \in S : x <= y
         IN <<m>> \o Ascending(S \ {m})

nonzero_idx(small_cnt) == Ascending({c \in Classes : small_cnt[c] # Zero})

(* _idx.size() with zero-dimensional tensors: squeeze() of a one-element  *)
(* result is a scalar, whose size is empty.                                *)
idx_size_scalar(idx) == IF Len(idx) <= 1 THEN <<>> ELSE <<Len(idx)>>

(* _idx.size() of the tensors the source is written for (Variable API, no  *)
(* zero-dimensional tensors): empty for an empty result, one axis else.    *)
idx_size(idx) == IF Len(idx) = 0 THEN <<>> ELSE <<Len(idx)>>

(* nn.MSELoss(): mean of the squared differences over the selected classes *)
Square(df) == FMul(df, df)

criterion(SMALL, BIG) ==
    FDiv(FSum([i \in 1..Len(SMALL) |-> Square(FSub(SMALL[i], BIG[i]))]), R(Len(SMALL)))

compute_loss(final_small_feat, final_big_feat, idx) ==
    IF idx_size(idx) # <<>>
    THEN [kind |-> "Variable",
          value |-> criterion([i \in 1..Len(idx) |-> final_small_feat[idx[i]]],
                              [i \in 1..Len(idx) |-> final_big_feat[idx[i]]])]
    ELSE [kind |-> "int", value |-> Zero]

(* The classes of idx with a big-object count in some slot of the buffer *)
SeenOnly(idx, buffer_cnt_after) ==
    SelectSeq(idx, LAMBDA c : \E i \in 1..Len(buffer_cnt_after) :
                                 buffer_cnt_after[i].val[c] # Zero)

(* LossOver that compares only classes the buffer has big objects of. *)
LossOver_seen_only(small, upd, final_small_cnt, idx) ==
    [buffer |-> upd.buffer,
     buffer_cnt |-> upd.buffer_cnt,
     writes |-> upd.writes,
     final_big_feat |-> upd.final_big_feat,
     final_small_feat |-> small.feat,
     final_small_cnt |-> final_small_cnt,
     idx |-> SeenOnly(idx, upd.buffer_cnt),
     loss |-> compute_loss(small.feat, upd.final_big_feat, SeenOnly(idx, upd.buffer_cnt))]

(* The tail of meta_loss, from final_small_cnt.data[0][0] = 0 on *)
LossOver(small, upd, final_small_cnt, idx) ==
    [buffer |-> upd.buffer,
     buffer_cnt |-> upd.buffer_cnt,
     writes |-> upd.writes,
     final_big_feat |-> upd.final_big_feat,
     final_small_feat |-> small.feat,
     final_small_cnt |-> final_small_cnt,
     idx |-> idx,
     loss |-> compute_loss(small.feat, upd.final_big_feat, idx)]

Select(small, upd, final_small_cnt) ==
    LossOver(small, upd, final_small_cnt, nonzero_idx(final_small_cnt))

Compare(small, upd) == Select(small, upd, zero_background(small.cnt))

Compared(small, updates) == {Compare(small, upd) : upd \in updates}

(* The possible results of one call *)
meta_loss(feat_input, buf, cnt, step) ==
    Compared(merge_feat_vec(feat_input.small_feat, feat_input.small_cnt),
             update_buffer(buf, cnt,
                           merge_feat_vec(feat_input.big_feat, feat_input.big_cnt), step))

---------------------------------------------------------------------------
(* Inputs of meta_loss: feat_input = [big_feat, big_cnt, small_feat,       *)
(* small_cnt].  A profile gives, for one class on the first gpu, the       *)
(* <<descriptor, count>> observed at each scale; a cell without            *)
(* observations holds <<0, 0>>, as the zero tensors of forward do.         *)

NoObs == [s \in Scales |-> <<0, 0>>]
OneCell(v, k) == [s \in Scales |-> IF s = 1 THEN <<v, k>> ELSE <<0, 0>>]
TwoCells(v, k, w, l) == [s \in Scales |-> IF s = 1 THEN <<v, k>> ELSE <<w, l>>]

PerClass(p0, p1, p2) ==
    [c \in Classes |-> CASE c = 0 -> p0 [] c = 1 -> p1 [] OTHER -> p2]

(* Big-object observations of one step *)
BigScenarios ==
    { PerClass(NoObs, NoObs, NoObs),
      PerClass(NoObs, OneCell(13, 1), NoObs),
      PerClass(NoObs, OneCell(13, MaxCnt), OneCell(4, 1)),
      PerClass(NoObs, TwoCells(13, 1, 13, MaxCnt), NoObs),
      PerClass(OneCell(4, 1), OneCell(4, MaxCnt), NoObs),
      PerClass(NoObs, TwoCells(4, 1, 13, 1), OneCell(13, 1)) }

(* Small-object observations of one step *)
SmallScenarios ==
    { PerClass(NoObs, NoObs, NoObs),
      PerClass(OneCell(4, 1), NoObs, NoObs),
      PerClass(NoObs, OneCell(4, 1), NoObs),
      PerClass(NoObs, TwoCells(13, 1, 4, 1), OneCell(13, 2)),
      PerClass(OneCell(4, 1), NoObs, OneCell(13, 2)) }

FeatTensor(prof) ==
    [g \in Gpus |-> [s \in Scales |-> [c \in Classes |->
        IF g = 1 THEN R(prof[c][s][1]) ELSE Zero]]]
CntTensor(prof) ==
    [g \in Gpus |-> [s \in Scales |-> [c \in Classes |->
        IF g = 1 THEN R(prof[c][s][2]) ELSE Zero]]]

MakeInput(bp, sp) ==
    [big_feat |-> FeatTensor(bp), big_cnt |-> CntTensor(bp),
     small_feat |-> FeatTensor(sp), small_cnt |-> CntTensor(sp)]

TrackerInputs == {MakeInput(bp, sp) : bp \in BigScenarios, sp \in SmallScenarios}

(* What the steps so far fed as big-object observations of each class:     *)
(* state "same" while every step fed the one descriptor d with a positive  *)
(* count; total is the sum of all counts fed.                              *)
NothingFed == [c \in Classes |-> [state |-> "none", d |-> Zero, total |-> 0]]

RECURSIVE SumInts(_)
SumInts(seq) == IF Len(seq) = 0 THEN 0 ELSE seq[1] + SumInts(Tail(seq))

Cells == Gpus \X Scales

FedAfter(old, feat_input) ==
    [c \in Classes |->
        LET seen == {x \in Cells : feat_input.big_cnt[x[1]][x[2]][c] # Zero}
            vals == {feat_input.big_feat[x[1]][x[2]][c] : x \in seen}
            cnts == SumInts([g \in Gpus |->
                        SumInts([s \in Scales |-> feat_input.big_cnt[g][s][c][1]])])
            v == CHOOSE x \in vals : TRUE
        IN [state |-> IF Cardinality(vals) # 1 \/ old[c].state = "mixed" THEN "mixed"
                      ELSE IF old[c].state = "none" \/ old[c].d = v THEN "same"
                      ELSE "mixed",
            d |-> IF Cardinality(vals) = 1 /\ old[c].state = "none" THEN v ELSE old[c].d,
            total |-> old[c].total + cnts]]

---------------------------------------------------------------------------
(* State after construction *)

EmptyBuffer(K) == [i \in 1..K |-> [val |-> ZeroVec, src |-> {}]]

InitWith(Cfgs, Capacities, Args) ==
    /\ cfg \in Cfgs
    /\ training = [net |-> TRUE, bn |-> TRUE]
    /\ \E K \in Capacities :
          /\ buffer = EmptyBuffer(K)
          /\ buffer_cnt = EmptyBuffer(K)
    /\ fed = NothingFed
    /\ nsteps = 0
    /\ nwrites = 0
    /\ call = "none"
    /\ arg \in Args
    /\ ret = [kind |-> "none"]
    /\ trace = <<>>
    /\ history = <<>>

(* One consistency-tracker step: the caller hands meta_loss the gathered   *)
(* feat_input.  self.criterion exists only with DEV.SWITCH.                *)
MetaLossStep(inputs) ==
    /\ cfg.use_dev
    /\ nsteps < MaxSteps
    /\ \E feat_input \in inputs :
          \E r \in meta_loss(feat_input, buffer, buffer_cnt, nsteps + 1) :
             /\ buffer' = r.buffer
             /\ buffer_cnt' = r.buffer_cnt
             /\ nwrites' = nwrites + r.writes
             /\ fed' = FedAfter(fed, feat_input)
             /\ arg' = [op |-> "meta_loss", feat_input |-> feat_input]
             /\ ret' = [kind |-> "loss", loss |-> r.loss, idx |-> r.idx,
                        final_big_feat |-> r.final_big_feat,
                        final_small_feat |-> r.final_small_feat,
                        final_small_cnt |-> r.final_small_cnt]
    /\ nsteps' = nsteps + 1
    /\ call' = "meta_loss"
    /\ trace' = <<>>
    /\ UNCHANGED <<cfg, training, history>>

NoCall == {[op |-> "none"]}

InitTracker == InitWith({[use_dev |-> TRUE, bn_learn |-> TRUE]}, 1..MaxBufferSize, NoCall)
NextTracker == MetaLossStep(TrackerInputs)
SpecTracker == InitTracker /\ [][NextTracker]_vars

---------------------------------------------------------------------------
(* Scale Router: Dev.forward of lib/sub_module.py                          *)
(*                                                                         *)
(* A box is <<y1, x1, y2, x2>>.  The source holds normalized coordinates   *)
(* and multiplies the normalized area by the image area; the model holds   *)
(* the coordinates already multiplied by the image side (a square image),  *)
(* so that h * w is the area in pixels.  rois[b][s] is the box of image b  *)
(* at slot s, roi_cls_gt[b][s] its ground-truth class.                     *)

ZeroBox == <<0, 0, 0, 0>>
Boxes == {ZeroBox, <<0, 0, 32, 32>>, <<16, 16, 116, 116>>, <<0, 0, 224, 224>>,
          <<0, 0, 512, 512>>, <<0, 0, 640, 640>>}

UPSAMPLE_FAC == 2

Levels == <<2, 3, 4, 5>>

NoGt == [is_none |-> TRUE, ids |-> <<>>]
Gt(ids) == [is_none |-> FALSE, ids |-> ids]

Area(box) == (box[3] - box[1]) * (box[4] - box[2])

MinInt == -2147483647 - 1

(* round(4 + log2(sqrt(h*w) / (224.0 / sqrt(image_area)))).int(): the      *)
(* level L with L - 1/2 <= 4 + log2(sqrt(A)/224) < L + 1/2, that is        *)
(* 98 * 4^L <= A < 98 * 4^(L+1).  A zero area gives log2(0) = -inf, whose  *)
(* conversion to int is the least int on the targets of the build.         *)
RawLevel(A) ==
    IF A <= 0 THEN MinInt
    ELSE CHOOSE L \in -4..10 :
            IF L < 0 THEN 98 <= A * 4^(-L) /\ A * 4^(-L) < 98 * 4
                     ELSE 98 * 4^L <= A /\ (L < 10 => A < 98 * 4^(L + 1))

Clamp(v, lo, hi) == IF v < lo THEN lo ELSE IF v > hi THEN hi ELSE v

(* roi_level_of with the upper clamp one level short. *)
roi_level_of_clamp_2_4(box) == Clamp(RawLevel(Area(box)), 2, 4)

roi_level_of(box) == Clamp(RawLevel(Area(box)), 2, 5)

(* The first n entries of f as a sequence of values: a tensor holds its    *)
(* entries, it does not recompute them when it is read.                    *)
RECURSIVE Stored(_, _)
Stored(f, n) == IF n = 0 THEN <<>> ELSE Append(Stored(f, n - 1), f[n])

(* roi_level: [bs, num_roi] *)
RoiLevels(rois) ==
    Stored([b \in 1..Len(rois) |->
               Stored([s \in 1..Len(rois[b]) |-> roi_level_of(rois[b][s])], Len(rois[b]))],
           Len(rois))

(* _find_big_box that takes every coarser level as big. *)
find_big_box_any_coarser(level, lv) ==
    IF level = 2 THEN lv > 2
    ELSE IF level = 3 THEN lv > 3
    ELSE lv = -1

(* Dev._find_big_box: the mask big_ix, as a predicate on one ROI's level *)
find_big_box(level, lv) ==
    IF level = 2 THEN lv = 4 \/ lv = 5
    ELSE IF level = 3 THEN lv = 5
    ELSE lv = -1

(* All <<b, s>> in row-major order, the order of torch.nonzero *)
RECURSIVE RowMajor(_, _)
RowMajor(rois, b) ==
    IF b > Len(rois) THEN <<>>
    ELSE [s \in 1..Len(rois[b]) |-> <<b, s>>] \o RowMajor(rois, b + 1)

(* ix = roi_level == level *)
LevelMask(roi_level, level) ==
    [b \in 1..Len(roi_level) |-> [s \in 1..Len(roi_level[b]) |-> roi_level[b][s] = level]]

(* big_ix = self._find_big_box(level, roi_level) *)
BigMask(roi_level, level) ==
    [b \in 1..Len(roi_level) |->
        [s \in 1..Len(roi_level[b]) |-> find_big_box(level, roi_level[b][s])]]

(* torch.nonzero(ix) *)
Nonzero(ix) == SelectSeq(RowMajor(ix, 1), LAMBDA p : ix[p[1]][p[2]])

(* small_boxes *= self.upsample_fac *)
ScaleBox(box, f) == [k \in 1..4 |-> box[k] * f]

(* CropAndResizeFunction(size, size)(maps, boxes, box_ind), one crop per   *)
(* box.  The crop of the degenerate box <<0,0,0,0>> is the map's corner    *)
(* sample replicated, not the zero tensor.                                 *)
Crop(size, map, box, img) == [kind |-> "crop", size |-> size, map |-> map, box |-> box, img |-> img]
Zeros(size) == [kind |-> "zeros", size |-> size, map |-> [level |-> 0, upsampled |-> FALSE],
                box |-> ZeroBox, img |-> 0]

(* self.upsample(curr_feat_maps) *)
Upsample(map) == [map EXCEPT !.upsampled = TRUE]

FeatExtract(crops) == [fn |-> "feat_extract", of |-> crops]

(* Rows of a tensor at the given <<image, slot>> positions *)
Gather(t, index) == [k \in 1..Len(index) |-> t[index[k][1]][index[k][2]]]

(* CropAndResizeFunction applied to the boxes at the given positions, each *)
(* scaled by f; box_ind is the image of the position.                      *)
Crops(size, map, rois, index, f) ==
    [k \in 1..Len(index) |-> Crop(size, map, ScaleBox(rois[index[k][1]][index[k][2]], f),
                                  index[k][1])]

(* big_box_gt, big_output *)
BigPart(curr_feat_maps, rois, roi_cls_gt, big_index) ==
    IF Len(big_index) = 0
    THEN [big_box_gt |-> <<>>, big_output |-> [fn |-> "none", of |-> <<>>]]
    ELSE [big_box_gt |-> Gather(roi_cls_gt.ids, big_index),
          big_output |-> FeatExtract(Crops("feat_pool_size", curr_feat_maps, rois,
                                           big_index, 1))]

(* The ROI tensor after "small_boxes *= self.upsample_fac" had small_boxes  *)
(* shared storage with rois.                                               *)
RoisAfterScaling_shared(rois, index, fac) ==
    [b \in 1..Len(rois) |-> [s \in 1..Len(rois[b]) |->
        IF <<b, s>> \in {index[k] : k \in DOMAIN index} THEN ScaleBox(rois[b][s], fac)
        ELSE rois[b][s]]]

(* The ROI tensor after small_boxes = rois[index[:, 0].data,               *)
(* index[:, 1].data, :] and small_boxes *= self.upsample_fac: indexing     *)
(* with index tensors copies the rows, the scaling writes the copy.        *)
RoisAfterScaling(rois, index, fac) == rois

PassResult(level, index, big_index, roi_cls_gt, big, pooled_features, mask_and_feat, rois, rois_after) ==
    IF roi_cls_gt.is_none
    THEN \* roi_cls_gt[...] on None, before the scaling
         [raised |-> "TypeError", level |-> level, index |-> index, big_index |-> big_index,
          pooled |-> <<>>, mask |-> <<>>, feat |-> <<>>, rois |-> rois]
    ELSE [raised |-> "none", level |-> level, index |-> index, big_index |-> big_index,
          rois |-> rois_after,
          pooled |-> pooled_features,
          mask |-> mask_and_feat,
          feat |-> IF level \in {2, 3}
                   THEN <<[level |-> level, big_box_gt |-> big.big_box_gt,
                           big_output |-> big.big_output,
                           small_box_gt |-> Gather(roi_cls_gt.ids, index),
                           small_output |-> FeatExtract(mask_and_feat)]>>
                   ELSE <<>>]

(* The body of the loop from "SMALL boxes exist" on.  small_boxes is a     *)
(* copy made by the index expression; the scaling acts on the copy.        *)
SmallPart(level, rois, roi_cls_gt, index, big_index, big, feat_maps, fac) ==
    PassResult(level, index, big_index, roi_cls_gt, big,
               Crops("pool_size", feat_maps, rois, index, fac),
               Crops("mask_pool_size", feat_maps, rois, index, fac),
               rois, RoisAfterScaling(rois, index, fac))

Routed(i, level, x, rois, roi_cls_gt, index, big_index) ==
    SmallPart(level, rois, roi_cls_gt, index, big_index,
              IF roi_cls_gt.is_none THEN [big_box_gt |-> <<>>,
                                          big_output |-> [fn |-> "none", of |-> <<>>]]
              ELSE BigPart(x[i], rois, roi_cls_gt, big_index),
              IF level \in {2, 3} THEN Upsample(x[i]) ELSE x[i],
              IF level \in {2, 3} THEN UPSAMPLE_FAC ELSE 1)

(* One iteration of the loop over the levels, for a level with ROIs *)
LevelPass(i, level, x, rois, roi_cls_gt, roi_level) ==
    Routed(i, level, x, rois, roi_cls_gt,
           Nonzero(LevelMask(roi_level, level)),
           Nonzero(BigMask(roi_level, level)))

(* The passes of the levels that have ROIs, in loop order, up to and       *)
(* including the first that raises.                                        *)
Continue(pass, rest) == IF pass.raised # "none" THEN <<pass>> ELSE <<pass>> \o rest

(* LevelLoop that runs the pass of a level without ROIs as well. *)
RECURSIVE LevelLoop_no_skip(_, _, _, _, _)
LevelLoop_no_skip(i, x, rois, roi_cls_gt, roi_level) ==
    IF i > Len(Levels) THEN <<>>
    ELSE Continue(LevelPass(i, Levels[i], x, rois, roi_cls_gt, roi_level),
                  LevelLoop_no_skip(i + 1, x, rois, roi_cls_gt, roi_level))

RECURSIVE LevelLoop(_, _, _, _, _)

(* The loop after a pass: the next levels see the ROI tensor as the pass   *)
(* left it.                                                                *)
AfterPass(pass, i, x, roi_cls_gt, roi_level) ==
    Continue(pass, LevelLoop(i + 1, x, pass.rois, roi_cls_gt, roi_level))

(* roi_level is computed once before the loop *)
LevelLoop(i, x, rois, roi_cls_gt, roi_level) ==
    IF i > Len(Levels) THEN <<>>
    ELSE IF Len(Nonzero(LevelMask(roi_level, Levels[i]))) = 0
    THEN LevelLoop(i + 1, x, rois, roi_cls_gt, roi_level)
    ELSE AfterPass(LevelPass(i, Levels[i], x, rois, roi_cls_gt, roi_level),
                   i, x, roi_cls_gt, roi_level)

RECURSIVE Concat(_, _)
Concat(passes, field) ==
    IF Len(passes) = 0 THEN <<>>
    ELSE passes[1][field] \o Concat(Tail(passes), field)

(* out[box_to_level[:, 0], box_to_level[:, 1]] = values, then view(-1, ...) *)
RECURSIVE Scatter(_, _, _)
Scatter(out, box_to_level, values) ==
    IF Len(box_to_level) = 0 THEN out
    ELSE LET p == box_to_level[1]
         IN Scatter([out EXCEPT ![p[1]][p[2]] = values[1]], Tail(box_to_level), Tail(values))

RECURSIVE Flatten(_)
Flatten(t) == IF Len(t) = 0 THEN <<>> ELSE t[1] \o Flatten(Tail(t))

ZeroOut(rois, size) == [b \in 1..Len(rois) |-> [s \in 1..Len(rois[b]) |-> Zeros(size)]]

reshape_result(pooled, mask, box_to_level, rois) ==
    [pooled_out |-> Flatten(Scatter(ZeroOut(rois, "pool_size"), box_to_level, pooled)),
     mask_out |-> Flatten(Scatter(ZeroOut(rois, "mask_pool_size"), box_to_level, mask))]

NoFeat == [is_none |-> TRUE, list |-> <<>>]

RouterResult(raised, res, feat_out, box_to_level, rois) ==
    [raised |-> raised, pooled_out |-> res.pooled_out, mask_out |-> res.mask_out,
     feat_out |-> feat_out, box_to_level |-> box_to_level, rois |-> rois]

(* The dynamic branch after the loop over the levels.  The loop stops at   *)
(* the pass that raises, which is then the last.                           *)
Dynamic(passes, rois) ==
    IF passes[Len(passes)].raised # "none"
    THEN RouterResult(passes[Len(passes)].raised, [pooled_out |-> <<>>, mask_out |-> <<>>],
                      NoFeat, Concat(passes, "index"), passes[Len(passes)].rois)
    ELSE RouterResult("none",
                      reshape_result(Concat(passes, "pooled"), Concat(passes, "mask"),
                                     Concat(passes, "index"), rois),
                      [is_none |-> FALSE, list |-> Concat(passes, "feat")],
                      Concat(passes, "index"), passes[Len(passes)].rois)

DevForward(use_dev, x, rois, roi_cls_gt) ==
    IF ~use_dev
    THEN RouterResult("none",
                      [pooled_out |-> [fn |-> "pyramid_roi_align", size |-> "pool_size",
                                       rois |-> rois],
                       mask_out |-> [fn |-> "pyramid_roi_align", size |-> "mask_pool_size",
                                     rois |-> rois]],
                      NoFeat, <<>>, rois)
    ELSE Dynamic(LevelLoop(1, x, rois, roi_cls_gt, RoiLevels(rois)), rois)

(* The pyramid maps handed to the router: P2..P5 *)
FeatureMaps == [i \in 1..4 |-> [level |-> i + 1, upsampled |-> FALSE]]

---------------------------------------------------------------------------
(* Pipeline orchestrator: MaskRCNN.forward                                 *)
(*                                                                         *)
(* ext holds what the collaborators outside the source return in this      *)
(* pass: proposal_layer's proposals, detection_layer's detections (rows    *)
(* <<y1, x1, y2, x2, class_id, score>> in image coordinates) and           *)
(* prepare_det_target's sampled _rois with their target_class_ids.         *)

Step(op, what, gt) == [op |-> op, what |-> what, gt |-> gt]

(* fpn, rpn on each of the five maps, proposal_layer *)
FeatureExtraction(count) ==
    <<Step("fpn", "molded_images", "-")>>
    \o [k \in 1..5 |-> Step("rpn", "P", "-")]
    \o <<Step("proposal_layer", count, "-")>>

(* The exceptions the spec calls ConfigError, by their messages *)
ConfigErrors == {"unknown phase", "unsupported upsampling factor"}

(* self.eval(); self.train() followed by set_bn_eval unless BN_LEARN *)
ModeFlags(mode, bn_learn) ==
    IF mode = "inference" THEN [net |-> FALSE, bn |-> FALSE]
    ELSE [net |-> TRUE, bn |-> bn_learn]

(* detections[:, :, :4] / scale *)
NormalizeBoxes(detections) ==
    [b \in 1..Len(detections) |-> [s \in 1..Len(detections[b]) |->
        SubSeq(detections[b][s], 1, 4)]]

RECURSIVE SumSeq(_)
SumSeq(seq) == IF Len(seq) = 0 THEN 0 ELSE seq[1] + SumSeq(Tail(seq))

(* torch.sum(_rois) *)
SumRois(rois) == SumSeq(Flatten(Flatten(rois)))

Tensor(src, shape) == [src |-> src, shape |-> shape]

(* [big_feat, big_cnt, small_feat, small_cnt] = _feat_out *)
Unpack4(list) ==
    IF Len(list) = 4 THEN [raised |-> "none", values |-> list]
    ELSE [raised |-> "ValueError", values |-> <<>>]

Raise(what, flags, steps) ==
    [raised |-> what, kind |-> "raised", value |-> <<>>, intermed |-> <<>>,
     training |-> flags, trace |-> steps]

InferenceHeads == <<Step("classifier", "pooled_cls", "-"),
                    Step("detection_layer", "proposals", "-")>>

(* From detection_layer on: the second router pass and the mask head *)
InferenceMask(ext, flags, pre, second) ==
    IF second.raised # "none"
    THEN Raise(second.raised, flags, pre \o <<Step("dev_roi", "detections", "None")>>)
    ELSE [raised |-> "none", kind |-> "detections",
          value |-> <<ext.detections, [fn |-> "mask", of |-> second.mask_out]>>,
          intermed |-> <<>>,
          training |-> flags,
          trace |-> pre \o <<Step("dev_roi", "detections", "None"),
                             Step("mask", "pooled_mask", "-")>>]

InferenceAfter(c, ext, flags, pre, first) ==
    IF first.raised # "none" THEN Raise(first.raised, flags, pre)
    ELSE InferenceMask(ext, flags, pre \o InferenceHeads,
                       DevForward(c.use_dev, FeatureMaps, NormalizeBoxes(ext.detections),
                                  NoGt))

ForwardInference(c, ext, flags) ==
    InferenceAfter(c, ext, flags,
                   FeatureExtraction("POST_NMS_ROIS_INFERENCE")
                       \o <<Step("dev_roi", "proposals", "None")>>,
                   DevForward(c.use_dev, FeatureMaps, ext.proposals, NoGt))

(* The predictions: zero tensors, replaced by the heads' outputs when the  *)
(* heads run.                                                              *)
Predictions(heads, bs, num_rois, num_cls) ==
    [class_logits |-> Tensor(IF heads THEN "classifier" ELSE "zeros", <<bs, num_rois, num_cls>>),
     bbox |-> Tensor(IF heads THEN "classifier" ELSE "zeros", <<bs, num_rois, num_cls, 4>>),
     mask |-> Tensor(IF heads THEN "mask" ELSE "zeros",
                     <<bs, num_rois, num_cls, "mask_sz", "mask_sz">>)]

ZeroIntermediates(num_cls) ==
    <<Tensor("zeros", <<1, ScaleNum, "feat_dim", num_cls>>),
      Tensor("zeros", <<1, ScaleNum, 1, num_cls>>),
      Tensor("zeros", <<1, ScaleNum, "feat_dim", num_cls>>),
      Tensor("zeros", <<1, ScaleNum, 1, num_cls>>)>>

(* loss_merge = torch.stack(outputs) *)
Losses(bs, pred) ==
    <<[fn |-> "compute_rpn_class_loss", pred |-> Tensor("rpn", <<bs>>)],
      [fn |-> "compute_rpn_bbox_loss", pred |-> Tensor("rpn", <<bs>>)],
      [fn |-> "compute_mrcnn_class_loss", pred |-> pred.class_logits],
      [fn |-> "compute_mrcnn_bbox_loss", pred |-> pred.bbox],
      [fn |-> "compute_mrcnn_mask_loss", pred |-> pred.mask]>>

TrainReturn(ext, flags, steps, heads, intermed) ==
    [raised |-> "none", kind |-> "losses",
     value |-> Losses(Len(ext.rois),
                      Predictions(heads, Len(ext.rois), Len(ext.rois[1]), Cardinality(Classes))),
     intermed |-> intermed,
     training |-> flags,
     trace |-> steps]

TrainHeads == <<Step("classifier", "pooled_cls", "-"), Step("mask", "pooled_mask", "-")>>

(* if self.config.DEV.SWITCH: the four names are bound to the entries of   *)
(* _feat_out                                                               *)
TrainUnpacked(c, ext, flags, pre, unpacked) ==
    IF c.use_dev /\ unpacked.raised # "none" THEN Raise(unpacked.raised, flags, pre)
    ELSE TrainReturn(ext, flags, pre \o TrainHeads, TRUE,
                     IF c.use_dev THEN unpacked.values
                     ELSE ZeroIntermediates(Cardinality(Classes)))

(* if torch.sum(_rois).data[0] != 0 *)
TrainRouted(c, ext, flags, pre, dev) ==
    IF dev.raised # "none" THEN Raise(dev.raised, flags, pre)
    ELSE TrainUnpacked(c, ext, flags, pre, Unpack4(dev.feat_out.list))

TrainTargets == <<Step("prepare_rpn_target", "priors", "gt"),
                  Step("prepare_det_target", "proposals", "gt")>>

ForwardTrain(c, ext, flags) ==
    IF SumRois(ext.rois) # 0
    THEN TrainRouted(c, ext, flags,
                     FeatureExtraction("POST_NMS_ROIS_TRAINING") \o TrainTargets
                         \o <<Step("dev_roi", "rois", "target_class_ids")>>,
                     DevForward(c.use_dev, FeatureMaps, ext.rois, Gt(ext.target_class_ids)))
    ELSE TrainReturn(ext, flags, FeatureExtraction("POST_NMS_ROIS_TRAINING") \o TrainTargets,
                     FALSE, ZeroIntermediates(Cardinality(Classes)))

(* Forward whose train mode leaves learnable batch-norm layers as the      *)
(* earlier call put them.                                                  *)
Forward_train_keeps_bn(c, flags, mode, ext) ==
    IF mode = "inference" THEN ForwardInference(c, ext, ModeFlags(mode, c.bn_learn))
    ELSE IF mode = "train"
    THEN ForwardTrain(c, ext, [net |-> TRUE, bn |-> c.bn_learn /\ flags.bn])
    ELSE Raise("unknown phase", flags, <<>>)

(* Forward that sets the flags of the mode before rejecting it *)
Forward_flags_before_check(c, flags, mode, ext) ==
    IF mode = "inference" THEN ForwardInference(c, ext, ModeFlags(mode, c.bn_learn))
    ELSE IF mode = "train" THEN ForwardTrain(c, ext, ModeFlags(mode, c.bn_learn))
    ELSE Raise("unknown phase", ModeFlags(mode, c.bn_learn), <<>>)

Forward(c, flags, mode, ext) ==
    IF mode = "inference" THEN ForwardInference(c, ext, ModeFlags(mode, c.bn_learn))
    ELSE IF mode = "train" THEN ForwardTrain(c, ext, ModeFlags(mode, c.bn_learn))
    ELSE Raise("unknown phase", flags, <<>>)

---------------------------------------------------------------------------
(* Ground-truth batching: MaskRCNN.adjust_input_gt                         *)

(* .float(): conversion to single precision *)
Float32Bits == 24
ToFloat(v) == RoundTo(R(v), Float32Bits)

Max(S) == CHOOSE m \in S : \A x \in S : x <= m

ZeroMask(mask_shape) == [r \in 1..mask_shape |-> [c \in 1..mask_shape |-> Zero]]

(* adjust_input_gt that writes an image's rows at the end of its slice *)
adjust_input_gt_right_aligned(gt_cls_ids, gt_boxes, gt_masks) ==
    LET bs == Len(gt_cls_ids)
        gt_num == [i \in 1..bs |-> Len(gt_cls_ids[i])]
        max_gt_num == Max({gt_num[i] : i \in 1..bs})
        pad == [i \in 1..bs |-> max_gt_num - gt_num[i]]
    IN [GT_CLS_IDS |-> [i \in 1..bs |-> [k \in 1..max_gt_num |->
            IF k > pad[i] THEN ToFloat(gt_cls_ids[i][k - pad[i]]) ELSE Zero]],
        GT_BOXES |-> [i \in 1..bs |-> [k \in 1..max_gt_num |->
            IF k > pad[i] THEN [j \in 1..4 |-> ToFloat(gt_boxes[i][k - pad[i]][j])]
            ELSE [j \in 1..4 |-> Zero]]],
        GT_MASKS |-> [i \in 1..bs |-> [k \in 1..max_gt_num |->
            IF k > pad[i]
            THEN [r \in 1..gt_masks[1].shape |-> [c \in 1..gt_masks[1].shape |->
                     ToFloat(gt_masks[i].rows[k - pad[i]][r][c])]]
            ELSE ZeroMask(gt_masks[1].shape)]],
        gt_num |-> gt_num]

(* gt_cls_ids, gt_boxes, gt_masks: one array per image, n_i rows each *)
adjust_input_gt(gt_cls_ids, gt_boxes, gt_masks) ==
    LET bs == Len(gt_cls_ids)
        gt_num == [i \in 1..bs |-> Len(gt_cls_ids[i])]
        max_gt_num == Max({gt_num[i] : i \in 1..bs})
        mask_shape == gt_masks[1].shape
    IN [GT_CLS_IDS |-> [i \in 1..bs |-> [k \in 1..max_gt_num |->
            IF k <= gt_num[i] THEN ToFloat(gt_cls_ids[i][k]) ELSE Zero]],
        GT_BOXES |-> [i \in 1..bs |-> [k \in 1..max_gt_num |->
            IF k <= gt_num[i] THEN [j \in 1..4 |-> ToFloat(gt_boxes[i][k][j])]
            ELSE [j \in 1..4 |-> Zero]]],
        GT_MASKS |-> [i \in 1..bs |-> [k \in 1..max_gt_num |->
            IF k <= gt_num[i]
            THEN [r \in 1..mask_shape |-> [c \in 1..mask_shape |->
                     ToFloat(gt_masks[i].rows[k][r][c])]]
            ELSE ZeroMask(mask_shape)]],
        gt_num |-> gt_num]

---------------------------------------------------------------------------
(* Inputs of the pipeline, the router and the batching                     *)

NumSlots == 2
MaxGt == 2
BatchSizes == {1, 2}

RoiTensors(bs, boxes) == [1..bs -> [1..NumSlots -> boxes]]

(* target_class_ids of prepare_det_target: 0 on a zero-padded ROI *)
ClassIdsOf(rois) ==
    [b \in 1..Len(rois) |-> [s \in 1..Len(rois[b]) |->
        IF rois[b][s] = ZeroBox THEN 0 ELSE 1 + (s % 2)]]

(* detection_layer's rows for the given boxes *)
DetectionsOf(rois) ==
    [b \in 1..Len(rois) |-> [s \in 1..Len(rois[b]) |->
        rois[b][s] \o (IF rois[b][s] = ZeroBox THEN <<0, 0>> ELSE <<1 + (s % 2), 1>>)]]

PipelineBoxes == {ZeroBox, <<16, 16, 116, 116>>, <<0, 0, 512, 512>>}

PipelineRois(bs) ==
    IF bs = 1 THEN RoiTensors(1, PipelineBoxes)
    ELSE RoiTensors(bs, {ZeroBox, <<16, 16, 116, 116>>})

ZeroRois(bs) == [b \in 1..bs |-> [s \in 1..NumSlots |-> ZeroBox]]

(* detection_layer keeps proposals or none: the detections of a pass are   *)
(* its proposals' boxes or the zero padding alone                          *)
PipelineDetections(proposals) ==
    {DetectionsOf(proposals), DetectionsOf(ZeroRois(Len(proposals)))}

NoInputs == [proposals |-> <<>>, detections |-> <<>>, rois |-> <<>>, target_class_ids |-> <<>>]

ForwardInputs(mode) ==
    IF mode = "inference"
    THEN UNION {{[NoInputs EXCEPT !.proposals = p, !.detections = d] :
                    d \in PipelineDetections(p)} :
                p \in UNION {PipelineRois(bs) : bs \in BatchSizes}}
    ELSE IF mode = "train"
    THEN UNION {{[NoInputs EXCEPT !.rois = r, !.target_class_ids = ClassIdsOf(r)] :
                    r \in PipelineRois(bs)} : bs \in BatchSizes}
    ELSE {NoInputs}

Modes == {"inference", "train", "test"}

PipelineFeatInputs ==
    {MakeInput(PerClass(NoObs, NoObs, NoObs), PerClass(NoObs, NoObs, NoObs)),
     MakeInput(PerClass(NoObs, OneCell(13, MaxCnt), NoObs), PerClass(NoObs, OneCell(4, 1), NoObs))}

GtInstances ==
    {[cls |-> 1, box |-> <<0, 0, 32, 32>>, mask |-> <<<<1, 0>>, <<0, 0>>>>],
     [cls |-> 2, box |-> <<16, 16, 116, 116>>, mask |-> <<<<0, 1>>, <<1, 1>>>>],
     [cls |-> 2, box |-> <<0, 0, 512, 512>>, mask |-> <<<<1, 1>>, <<1, 1>>>>]}

GtImages == UNION {[1..n -> GtInstances] : n \in 0..MaxGt}

GtBatches == UNION {[1..bs -> GtImages] : bs \in BatchSizes}

---------------------------------------------------------------------------
(* Specifications                                                          *)

(* One forward pass.  forward reads and writes no attribute of the tracker *)
(* (self.buffer, self.buffer_cnt).                                         *)
ForwardPass ==
    /\ \E mode \in Modes : \E ext \in ForwardInputs(mode) :
          \E r \in {Forward(cfg, training, mode, ext)} :
             /\ training' = r.training
             /\ arg' = [op |-> "forward", mode |-> mode, ext |-> ext]
             /\ ret' = [kind |-> r.kind, raised |-> r.raised, value |-> r.value,
                        intermed |-> r.intermed]
             /\ trace' = r.trace
    /\ call' = "forward"
    /\ UNCHANGED <<cfg, buffer, buffer_cnt, fed, nsteps, nwrites>>

ForwardStep == ForwardPass /\ UNCHANGED history

Init == InitWith([use_dev : BOOLEAN, bn_learn : BOOLEAN], 1..MaxBufferSize, NoCall)
Next == ForwardStep \/ MetaLossStep(PipelineFeatInputs)
Spec == Init /\ [][Next]_vars

(* The Scale Router as a function of its arguments *)
DevArgs ==
    UNION {{[op |-> "dev_roi", use_dev |-> use_dev, rois |-> rois, roi_cls_gt |-> gt] :
               use_dev \in BOOLEAN, gt \in {NoGt, Gt(ClassIdsOf(rois))}} :
           rois \in UNION {RoiTensors(bs, Boxes) : bs \in BatchSizes}}

InitDev == InitWith({[use_dev |-> TRUE, bn_learn |-> TRUE]}, {1}, DevArgs)

DevStep ==
    /\ call = "none"
    /\ \E r \in {DevForward(arg.use_dev, FeatureMaps, arg.rois, arg.roi_cls_gt)} :
          ret' = [kind |-> "dev_roi", raised |-> r.raised, pooled_out |-> r.pooled_out,
                  mask_out |-> r.mask_out, feat_out |-> r.feat_out,
                  box_to_level |-> r.box_to_level, rois |-> r.rois]
    /\ call' = "dev_roi"
    /\ UNCHANGED <<cfg, training, buffer, buffer_cnt, fed, nsteps, nwrites, arg, trace,
                   history>>

SpecDev == InitDev /\ [][DevStep]_vars

(* adjust_input_gt as a function of the batch *)
GtArgs ==
    {[op |-> "adjust_input_gt",
      gt_cls_ids |-> [i \in 1..Len(batch) |-> [k \in 1..Len(batch[i]) |-> batch[i][k].cls]],
      gt_boxes |-> [i \in 1..Len(batch) |-> [k \in 1..Len(batch[i]) |-> batch[i][k].box]],
      gt_masks |-> [i \in 1..Len(batch) |->
                       [shape |-> 2,
                        rows |-> [k \in 1..Len(batch[i]) |-> batch[i][k].mask]]]] :
        batch \in GtBatches}

InitGT == InitWith({[use_dev |-> TRUE, bn_learn |-> TRUE]}, {1}, GtArgs)

AdjustStep ==
    /\ call = "none"
    /\ \E r \in {adjust_input_gt(arg.gt_cls_ids, arg.gt_boxes, arg.gt_masks)} :
          ret' = [kind |-> "gt", GT_CLS_IDS |-> r.GT_CLS_IDS, GT_BOXES |-> r.GT_BOXES,
                  GT_MASKS |-> r.GT_MASKS, gt_num |-> r.gt_num]
    /\ call' = "adjust_input_gt"
    /\ UNCHANGED <<cfg, training, buffer, buffer_cnt, fed, nsteps, nwrites, arg, trace,
                   history>>

SpecGT == InitGT /\ [][AdjustStep]_vars

---------------------------------------------------------------------------
(* Construction: MaskRCNN._build and Dev.__init__                          *)

ImageSizeError == "Image size must be dividable by 2 at least 6 times"

(* h / 2**6 != int(h / 2**6) *)
Dividable(n) == n % 2^6 = 0

NoModule == [built |-> FALSE, layers |-> <<>>]
Sequential(layers) == [built |-> TRUE, layers |-> layers]

DevBuilt(config, raised, upsample, feat_extract) ==
    [raised |-> raised, use_dev |-> config.SWITCH, upsample |-> upsample,
     feat_extract |-> feat_extract]

(* Dev.__init__(config, depth): the factor is read and tested only inside  *)
(* "if self.use_dev".                                                      *)
DevInit(config) ==
    IF ~config.SWITCH THEN DevBuilt(config, "none", NoModule, NoModule)
    ELSE IF config.FEAT_BRANCH_POOL_SIZE % 2 # 0
    THEN DevBuilt(config, "AssertionError", NoModule, NoModule)
    ELSE IF config.UPSAMPLE_FAC = R(UPSAMPLE_FAC)
    THEN DevBuilt(config, "none",
                  Sequential(<<"ConvTranspose2d", "BatchNorm2d", "ReLU",
                               "Conv2d", "BatchNorm2d", "ReLU">>),
                  Sequential(<<"Conv2d", "BatchNorm2d", "ReLU",
                               "Conv2d", "BatchNorm2d", "ReLU">>))
    ELSE DevBuilt(config, "unsupported upsampling factor", NoModule, NoModule)

Built(raised, dev_roi, has_criterion, modules) ==
    [raised |-> raised, dev_roi |-> dev_roi, has_criterion |-> has_criterion,
     modules |-> modules]

(* MaskRCNN._build(config) *)
Build(config) ==
    IF ~(Dividable(config.IMAGE_SHAPE[1]) /\ Dividable(config.IMAGE_SHAPE[2]))
    THEN Built(ImageSizeError, DevBuilt(config, "none", NoModule, NoModule), FALSE, <<>>)
    ELSE IF DevInit(config).raised # "none"
    THEN Built(DevInit(config).raised, DevInit(config), FALSE, <<"fpn", "rpn">>)
    ELSE Built("none", DevInit(config), config.SWITCH /\ config.LOSS_CHOICE = "l2",
               <<"fpn", "rpn", "dev_roi", "classifier", "mask">>)

(* Static configurations: config.DEV.SWITCH, DEV.UPSAMPLE_FAC,             *)
(* DEV.FEAT_BRANCH_POOL_SIZE, DEV.LOSS_CHOICE, DATA.IMAGE_SHAPE            *)
Factors == {R(1), <<3, 2>>, R(2), R(4)}
Configs ==
    [SWITCH : BOOLEAN, UPSAMPLE_FAC : Factors, FEAT_BRANCH_POOL_SIZE : {14, 7},
     LOSS_CHOICE : {"l2", "l1"}, IMAGE_SHAPE : {512, 500} \X {512, 500}]

BuildArgs == {[op |-> "build", config |-> config] : config \in Configs}

InitBuild == InitWith({[use_dev |-> TRUE, bn_learn |-> TRUE]}, {1}, BuildArgs)

BuildStep ==
    /\ call = "none"
    /\ \E r \in {Build(arg.config)} :
          ret' = [kind |-> "build", raised |-> r.raised, dev_roi |-> r.dev_roi,
                  has_criterion |-> r.has_criterion, modules |-> r.modules]
    /\ call' = "build"
    /\ UNCHANGED <<cfg, training, buffer, buffer_cnt, fed, nsteps, nwrites, arg, trace,
                   history>>

SpecBuild == InitBuild /\ [][BuildStep]_vars

---------------------------------------------------------------------------
(* Sequences of forward calls, the mode of each call recorded              *)

MaxPasses == 3       \* forward calls per behaviour

InitModes == InitWith([use_dev : BOOLEAN, bn_learn : BOOLEAN], {1}, NoCall)

ForwardCall ==
    /\ Len(history) < MaxPasses
    /\ ForwardPass
    /\ history' = Append(history, arg'.mode)

SpecModes == InitModes /\ [][ForwardCall]_vars

---------------------------------------------------------------------------
(* The checkpoint renaming script tools/change_model_savings.py            *)
(*                                                                         *)
(* The disk is a function from paths to file contents; a path is the       *)
(* sequence of the pieces of its name, the digits as characters.           *)

MaxEpoch == 6        \* largest epoch stored in the checkpoint

DigitChar(d) == <<"0", "1", "2", "3", "4", "5", "6", "7", "8", "9">>[d + 1]

(* The decimal digits of n >= 0 *)
RECURSIVE Decimal(_)
Decimal(n) == IF n < 10 THEN <<DigitChar(n)>> ELSE Decimal(n \div 10) \o <<DigitChar(n % 10)>>

(* '{:0<width>d}'.format(n): zero padded on the left to at least width *)
RECURSIVE Padded(_, _)
Padded(digits, width) ==
    IF Len(digits) >= width THEN digits ELSE Padded(<<"0">> \o digits, width)

(* os.path.join(base_name, 'mask_rcnn_ep_{:04d}_iter_{:06d}.pth'.format(epoch, iter)) *)
Format(epoch, iter) ==
    <<"results/base_102/train", "/", "mask_rcnn_ep_">> \o Padded(Decimal(epoch), 4)
        \o <<"_iter_">> \o Padded(Decimal(iter), 6) \o <<".pth">>

(* os.path.join(base_name, file_name), file_name the literal               *)
(* 'mask_rcnn_ep_0006_iter_003660.pth'                                     *)
model_path ==
    <<"results/base_102/train", "/", "mask_rcnn_ep_", "0", "0", "0", "6", "_iter_",
      "0", "0", "3", "6", "6", "0", ".pth">>

(* The checkpoints the old file can hold: what was stored in it need not   *)
(* agree with its name.                                                    *)
StoredEpochs == 0..MaxEpoch
StoredIters == {0, 366, 3660, 3661, 36600, 1003660}
StoredWeights == {"w1", "w2"}

Checkpoint(weights, epoch, iter) == [state_dict |-> weights, epoch |-> epoch, iter |-> iter]

ScriptArgs ==
    {[op |-> "change_model_savings", stored |-> Checkpoint(w, e, i)] :
        w \in StoredWeights, e \in StoredEpochs, i \in StoredIters}

InitScript == InitWith({[use_dev |-> TRUE, bn_learn |-> TRUE]}, {1}, ScriptArgs)

ScriptState(disk, weights, iter, epoch, model_file) ==
    [kind |-> "script", disk |-> disk, weights |-> weights, iter |-> iter, epoch |-> epoch,
     model_file |-> model_file]

(* torch.save(obj, path): creates the file or overwrites it *)
Saved(disk, path, obj) == [q \in DOMAIN disk \cup {path} |-> IF q = path THEN obj ELSE disk[q]]

(* os.remove(path) *)
Removed(disk, path) == [q \in DOMAIN disk \ {path} |-> disk[q]]

(* checkpoints = torch.load(model_path); weights, iter, epoch = ... + 1 *)
LoadStep ==
    /\ call = "none"
    /\ ret' = ScriptState([q \in {model_path} |-> arg.stored], arg.stored.state_dict,
                          arg.stored.iter, arg.stored.epoch + 1, <<>>)
    /\ call' = "load"
    /\ UNCHANGED <<cfg, training, buffer, buffer_cnt, fed, nsteps, nwrites, arg, trace,
                   history>>

(* model_file = ...format(epoch, iter); torch.save({...}, model_file) *)
SaveStep ==
    /\ call = "load"
    /\ ret' = ScriptState(Saved(ret.disk, Format(ret.epoch, ret.iter),
                                Checkpoint(ret.weights, ret.epoch, ret.iter)),
                          ret.weights, ret.iter, ret.epoch, Format(ret.epoch, ret.iter))
    /\ call' = "save"
    /\ UNCHANGED <<cfg, training, buffer, buffer_cnt, fed, nsteps, nwrites, arg, trace,
                   history>>

(* os.remove(model_path) *)
RemoveStep ==
    /\ call = "save"
    /\ ret' = ScriptState(Removed(ret.disk, model_path), ret.weights, ret.iter, ret.epoch,
                          ret.model_file)
    /\ call' = "remove"
    /\ UNCHANGED <<cfg, training, buffer, buffer_cnt, fed, nsteps, nwrites, arg, trace,
                   history>>

NextScript == LoadStep \/ SaveStep \/ RemoveStep
SpecScript == InitScript /\ [][NextScript]_vars

---------------------------------------------------------------------------
(* Claims about the pipeline orchestrator, checked under Spec              *)

Ops(steps) == [k \in 1..Len(steps) |-> steps[k].op]

InferenceOrder ==
    <<"fpn", "rpn", "rpn", "rpn", "rpn", "rpn", "proposal_layer", "dev_roi", "classifier",
      "detection_layer", "dev_roi", "mask">>

InferencePass == call = "forward" /\ arg.mode = "inference"
TrainPass == call = "forward" /\ arg.mode = "train"

(* C1: in 'inference' mode, in fixed and in dynamic router mode, forward   *)
(* runs proposal selection, a router pass over the proposals, the          *)
(* classification/box head, detection selection, a router pass over the    *)
(* detections and the mask head, in that order, calls the router without   *)
(* ground-truth classes in both passes, and returns [detections, masks].   *)
C1_InferenceOrderInBothRouterModes ==
    InferencePass =>
        /\ ret.raised = "none"
        /\ Ops(trace) = InferenceOrder
        /\ \A k \in 1..Len(trace) : trace[k].op = "dev_roi" => trace[k].gt = "None"
        /\ ret.kind = "detections"
        /\ Len(ret.value) = 2
        /\ ret.value[1] = arg.ext.detections

(* C2: in 'train' mode with the dynamic router and at least one nonzero    *)
(* sampled ROI, forward completes and returns the loss vector with exactly *)
(* four consistency intermediates, whatever number of the two finest       *)
(* levels produced a tuple in the router's per-level list.                 *)
C2_TrainReturnsFourIntermediates ==
    (TrainPass /\ cfg.use_dev /\ SumRois(arg.ext.rois) # 0) =>
        /\ ret.raised = "none"
        /\ ret.kind = "losses"
        /\ Len(ret.value) = 5
        /\ Len(ret.intermed) = 4

LossOrder ==
    <<"compute_rpn_class_loss", "compute_rpn_bbox_loss", "compute_mrcnn_class_loss",
      "compute_mrcnn_bbox_loss", "compute_mrcnn_mask_loss">>

HeadOps == {"dev_roi", "classifier", "mask"}

ZeroPrediction(loss, shape) == loss.pred.src = "zeros" /\ loss.pred.shape = shape

(* C3: in 'train' mode, when every sampled ROI is all zero, the router,    *)
(* the classification/box head and the mask head are not invoked, zero     *)
(* predictions of shapes (batch, ROIs, classes), (batch, ROIs, classes, 4) *)
(* and (batch, ROIs, classes, mask, mask) are used and forward returns the *)
(* five losses in order with zero-valued consistency intermediates; when   *)
(* any sampled ROI is nonzero the heads are run.                           *)
C3_ZeroRoisSkipHeadsElseHeadsRun ==
    TrainPass =>
        IF SumRois(arg.ext.rois) = 0
        THEN /\ ret.raised = "none"
             /\ \A k \in 1..Len(trace) : trace[k].op \notin HeadOps
             /\ [k \in 1..Len(ret.value) |-> ret.value[k].fn] = LossOrder
             /\ ZeroPrediction(ret.value[3],
                    <<Len(arg.ext.rois), NumSlots, Cardinality(Classes)>>)
             /\ ZeroPrediction(ret.value[4],
                    <<Len(arg.ext.rois), NumSlots, Cardinality(Classes), 4>>)
             /\ ZeroPrediction(ret.value[5],
                    <<Len(arg.ext.rois), NumSlots, Cardinality(Classes), "mask_sz", "mask_sz">>)
             /\ Len(ret.intermed) = 4
             /\ \A k \in 1..4 : ret.intermed[k].src = "zeros"
        ELSE /\ \E k \in 1..Len(trace) : trace[k].op = "classifier"
             /\ \E k \in 1..Len(trace) : trace[k].op = "mask"

(* C4: forward called with a mode other than 'inference' or 'train' fails  *)
(* with a ConfigError at entry: no backbone, proposal-selection, router or *)
(* head step runs, the train/eval flags are left as they were, and nothing *)
(* is returned.                                                            *)
C4_UnknownModeFailsAtEntry ==
    [][(call' = "forward" /\ arg'.mode \notin {"inference", "train"}) =>
          /\ ret'.raised \in ConfigErrors
          /\ trace' = <<>>
          /\ training' = training
          /\ ret'.kind = "raised"
          /\ ret'.value = <<>>
          /\ ret'.intermed = <<>>]_vars

(* An unknown mode after an inference pass: the flags are still eval *)
C4_Witness ==
    /\ call = "forward"
    /\ arg.mode = "test"
    /\ ret.raised = "unknown phase"
    /\ ~training.net

(* C5: over any sequence of forward passes and tracker steps, each tracker *)
(* step writes the buffer and its counts exactly once (this step enters    *)
(* the single slot at capacity 1 and the last slot, and no other, at       *)
(* capacity K > 1), also when the loss of the step is zero, and no forward *)
(* pass changes the buffer or its counts.                                  *)
C5_BufferWrittenOncePerStep ==
    [][/\ call' = "meta_loss" =>
             /\ nsteps' = nsteps + 1
             /\ nwrites' = nwrites + 1
             /\ Len(buffer') = Len(buffer) /\ Len(buffer_cnt') = Len(buffer)
             /\ IF Len(buffer) = 1
                THEN /\ buffer'[1].src = buffer[1].src \cup {nsteps'}
                     /\ buffer_cnt'[1].src = buffer_cnt[1].src \cup {nsteps'}
                ELSE /\ buffer'[Len(buffer)].src = {nsteps'}
                     /\ buffer_cnt'[Len(buffer)].src = {nsteps'}
                     /\ \A i \in 1..(Len(buffer) - 1) :
                           /\ nsteps' \notin buffer'[i].src
                           /\ nsteps' \notin buffer_cnt'[i].src
       /\ call' = "forward" => UNCHANGED <<buffer, buffer_cnt, nwrites>>]_vars

(* A second tracker step whose loss is the value zero, after an inference  *)
(* pass, with every step written once                                      *)
C5_Witness ==
    /\ call = "meta_loss"
    /\ ret.loss.kind = "int"
    /\ nsteps >= 2
    /\ nwrites = nsteps
    /\ nsteps \in buffer[Len(buffer)].src
    /\ ~training.net

---------------------------------------------------------------------------
(* Claims about the Scale Router, checked under SpecDev                    *)

RouterPass == call = "dev_roi" /\ arg.use_dev /\ ret.raised = "none"

OutRow(b, s) == (b - 1) * NumSlots + s

Slots == {<<b, s>> \in (1..Len(arg.rois)) \X (1..NumSlots) : TRUE}

(* Every nonzero ROI's crops are at the ROI's own row, each slot written   *)
(* at most once                                                            *)
ScatterKeepsPositions ==
    RouterPass =>
        \A p \in Slots :
            /\ Cardinality({k \in 1..Len(ret.box_to_level) : ret.box_to_level[k] = p}) <= 1
            /\ arg.rois[p[1]][p[2]] # ZeroBox =>
                  /\ ret.pooled_out[OutRow(p[1], p[2])].kind = "crop"
                  /\ ret.pooled_out[OutRow(p[1], p[2])].img = p[1]
                  /\ ret.pooled_out[OutRow(p[1], p[2])].box
                        \in {arg.rois[p[1]][p[2]], ScaleBox(arg.rois[p[1]][p[2]], UPSAMPLE_FAC)}
                  /\ ret.mask_out[OutRow(p[1], p[2])].kind = "crop"
                  /\ ret.mask_out[OutRow(p[1], p[2])].img = p[1]
                  /\ ret.mask_out[OutRow(p[1], p[2])].box
                        = ret.pooled_out[OutRow(p[1], p[2])].box

(* C9: in dynamic mode output row b*N+s holds the pooled crop and the mask *)
(* crop of ROI (b, s), each slot being written at most once, and the       *)
(* pooled output at every all-zero ROI slot is all zero.                   *)
C9_ScatterKeepsPositionsZeroSlotsZero ==
    /\ ScatterKeepsPositions
    /\ RouterPass =>
          \A p \in Slots :
              arg.rois[p[1]][p[2]] = ZeroBox =>
                  ret.pooled_out[OutRow(p[1], p[2])] = Zeros("pool_size")

---------------------------------------------------------------------------
(* Claims about the ground-truth batching, checked under SpecGT            *)

Batched == call = "adjust_input_gt"

Count(i) == Len(arg.gt_cls_ids[i])

BatchMax == Max({Count(i) : i \in 1..Len(arg.gt_cls_ids)})

(* C10: adjust_input_gt returns class-id, box and mask arrays whose        *)
(* instance axis has the length of the largest instance count of the       *)
(* batch; for every image the first n_i entries are the image's inputs in  *)
(* their order, the entries from n_i on are zero, and the counts n_i are   *)
(* returned.                                                               *)
C10_PaddedToBatchMax ==
    Batched =>
        /\ ret.gt_num = [i \in 1..Len(arg.gt_cls_ids) |-> Count(i)]
        /\ \A i \in 1..Len(arg.gt_cls_ids) :
              /\ Len(ret.GT_CLS_IDS[i]) = BatchMax
              /\ Len(ret.GT_BOXES[i]) = BatchMax
              /\ Len(ret.GT_MASKS[i]) = BatchMax
              /\ \A k \in 1..BatchMax :
                    IF k <= Count(i)
                    THEN /\ ret.GT_CLS_IDS[i][k] = R(arg.gt_cls_ids[i][k])
                         /\ ret.GT_BOXES[i][k] = [j \in 1..4 |-> R(arg.gt_boxes[i][k][j])]
                         /\ ret.GT_MASKS[i][k] =
                               [r \in 1..2 |-> [c \in 1..2 |-> R(arg.gt_masks[i].rows[k][r][c])]]
                    ELSE /\ ret.GT_CLS_IDS[i][k] = Zero
                         /\ ret.GT_BOXES[i][k] = [j \in 1..4 |-> Zero]
                         /\ ret.GT_MASKS[i][k] = ZeroMask(2)

(* A batch of two images, the first with fewer instances than the second   *)
(* but at least one: its row holds both data and padding                   *)
C10_Witness ==
    /\ Batched
    /\ Len(arg.gt_cls_ids) = 2
    /\ Count(1) >= 1
    /\ Count(1) < Count(2)
    /\ ret.GT_CLS_IDS[1][Count(2)] = Zero
    /\ ret.GT_CLS_IDS[1][1] # Zero

---------------------------------------------------------------------------
(* Claims about the consistency tracker, checked under SpecTracker         *)

Capacity == Len(buffer)

(* C6: after any sequence of tracker steps fed non-negative counts, at     *)
(* capacity 1 and at every capacity K > 1, every per-class count of the    *)
(* buffer is non-negative, and slot i of the feature buffer and slot i of  *)
(* the count buffer come from the same steps.                              *)
C6_CountsNonNegativeCoIndexed ==
    /\ Len(buffer) = Len(buffer_cnt)
    /\ \A i \in 1..Len(buffer) :
          /\ buffer[i].src = buffer_cnt[i].src
          /\ \A c \in Classes : RLeq(Zero, buffer_cnt[i].val[c])

Roundings == 3 * nsteps + GpuNum * ScaleNum + 1

SmallTotal(c) ==
    SumInts([g \in Gpus |->
        SumInts([s \in Scales |-> arg.feat_input.small_cnt[g][s][c][1]])])

ComparedClasses == {c \in Classes \ {0} : SmallTotal(c) # 0}

Reference == IF Capacity = 1 THEN buffer[1].val ELSE SlotAverage(buffer, buffer_cnt)

SquaredDistance(c) ==
    LET df == FSub(ret.final_small_feat[c], Reference[c]) IN FMul(df, df)

C8_LossOverObservedClasses ==
    call = "meta_loss" =>
        /\ {ret.idx[i] : i \in 1..Len(ret.idx)} = ComparedClasses
        /\ Len(ret.idx) = Cardinality(ComparedClasses)
        /\ ComparedClasses = {} => ret.loss = [kind |-> "int", value |-> Zero]
        /\ ComparedClasses # {} =>
              /\ ret.loss.kind = "Variable"
              /\ ret.loss.value =
                    FDiv(FSum([i \in 1..Cardinality(ComparedClasses) |->
                                  SquaredDistance(Ascending(ComparedClasses)[i])]),
                         R(Cardinality(ComparedClasses)))

C8_Witness ==
    /\ call = "meta_loss"
    /\ Cardinality(ComparedClasses) = 1
    /\ SmallTotal(0) # 0
    /\ ret.loss.kind = "Variable"
    /\ ret.loss.value # Zero

---------------------------------------------------------------------------
(* Claims about construction, checked under SpecBuild                      *)

Constructed == call = "build"

(* A configuration with no fault other than, possibly, the factor *)
OtherwiseValid ==
    /\ Dividable(arg.config.IMAGE_SHAPE[1]) /\ Dividable(arg.config.IMAGE_SHAPE[2])
    /\ arg.config.FEAT_BRANCH_POOL_SIZE % 2 = 0

(* C11: constructing the model with an upsample factor other than 2.0      *)
(* fails with the unsupported-factor error whether the dynamic switch is   *)
(* on or off, and with factor 2.0 the construction of the router succeeds. *)
C11_BadFactorFailsAtConstruction ==
    (Constructed /\ OtherwiseValid) =>
        IF arg.config.UPSAMPLE_FAC # R(2)
        THEN ret.raised = "unsupported upsampling factor"
        ELSE ret.raised = "none" /\ "dev_roi" \in {ret.modules[k] : k \in DOMAIN ret.modules}

---------------------------------------------------------------------------
(* Further claims about the tracker, checked under SpecTracker             *)

TrackerStep == call = "meta_loss"

(* The step whose average slot i holds when the slots are the last K steps *)
(* in chronological order; before K steps have run the oldest slots are    *)
(* still the empty slots of construction.                                  *)
StepOfSlot(i) == nsteps - Capacity + i
ExpectedSrc(i) == IF StepOfSlot(i) >= 1 THEN {StepOfSlot(i)} ELSE {}

ThisBig == merge_feat_vec(arg.feat_input.big_feat, arg.feat_input.big_cnt)

(* C12: at capacity K > 1 every step shifts the slots one position toward  *)
(* the oldest end, drops the oldest and writes this step's average and     *)
(* count into the newest slot, so the slots hold the last K steps in       *)
(* chronological order, and the reference is the count-weighted average of *)
(* those slots, the current step included.                                 *)
C12_SlotsHoldLastKStepsInOrder ==
    (TrackerStep /\ Capacity > 1) =>
        /\ \A i \in 1..Capacity :
              /\ buffer[i].src = ExpectedSrc(i)
              /\ buffer_cnt[i].src = ExpectedSrc(i)
        /\ buffer[Capacity].val = ThisBig.feat
        /\ buffer_cnt[Capacity].val = ThisBig.cnt
        /\ ret.final_big_feat = SlotAverage(buffer, buffer_cnt)

ThisSmall == merge_feat_vec(arg.feat_input.small_feat, arg.feat_input.small_cnt)

IdxClasses == {ret.idx[k] : k \in DOMAIN ret.idx}

(* C13: every step sets the background's (class 0) small-object count to   *)
(* zero before the classes are selected: class 0 is never compared         *)
(* whatever its observed count, and no other class's count is changed.     *)
C13_BackgroundNeverCompared ==
    TrackerStep =>
        /\ ret.final_small_cnt[0] = Zero
        /\ \A c \in Classes \ {0} : ret.final_small_cnt[c] = ThisSmall.cnt[c]
        /\ 0 \notin IdxClasses
        /\ IdxClasses = {c \in Classes \ {0} : ThisSmall.cnt[c] # Zero}

(* A step that observed small background objects beside another class *)
C13_Witness ==
    /\ TrackerStep
    /\ ThisSmall.cnt[0] # Zero
    /\ \E c \in Classes \ {0} : ThisSmall.cnt[c] # Zero /\ c \in IdxClasses

(* No slot of the buffer holds a big-object count of class c *)
Unseen(c) == \A i \in 1..Capacity : buffer_cnt[i].val[c] = Zero

(* The difference the loss takes for class c if an unseen class is         *)
(* compared against the zero vector                                        *)
DistanceToReference(c) ==
    Square(FSub(ret.final_small_feat[c], IF Unseen(c) THEN Zero ELSE ret.final_big_feat[c]))

(* C19: the classes compared in a step are those with a nonzero            *)
(* small-object count in this step, class 0 excepted; the buffer's         *)
(* big-object counts exclude no class: a class with a nonzero small-object *)
(* count and a zero buffer count in every slot is compared, against an     *)
(* all-zero reference.                                                     *)
C19_BufferCountsExcludeNoClass ==
    TrackerStep =>
        /\ IdxClasses = {c \in Classes \ {0} : SmallTotal(c) # 0}
        /\ \A c \in Classes \ {0} :
              (SmallTotal(c) # 0 /\ Unseen(c)) =>
                  /\ c \in IdxClasses
                  /\ ret.final_big_feat[c] = Zero
                  /\ ret.loss.kind = "Variable"
        /\ ret.loss.kind = "Variable" =>
              ret.loss.value
                 = FDiv(FSum([k \in 1..Len(ret.idx) |-> DistanceToReference(ret.idx[k])]),
                        R(Len(ret.idx)))

(* A step with small objects of a class the buffer has no big object of,   *)
(* after a step that fed other classes                                     *)
C19_Witness ==
    /\ TrackerStep
    /\ nsteps >= 2
    /\ \E c \in Classes \ {0} :
          /\ SmallTotal(c) # 0
          /\ Unseen(c)
          /\ c \in IdxClasses
          /\ ret.final_small_feat[c] # Zero
    /\ \E c \in Classes \ {0} : ~Unseen(c)
    /\ ret.loss.kind = "Variable"
    /\ ret.loss.value # Zero

---------------------------------------------------------------------------
(* Further claims about the Scale Router, checked under SpecDev            *)

RoiAt(p) == arg.rois[p[1]][p[2]]

(* The level whose pass cropped the ROI of slot p *)
LevelOfSlot(p) == ret.pooled_out[OutRow(p[1], p[2])].map.level

(* round(4 + log2(sqrt(A) / 224)) >= L  iff  sqrt(A) / 224 >= 2^(L - 9/2)  *)
(* iff  2^9 * A >= 224^2 * 4^L                                             *)
RoundsToAtLeast(A, L) == 2^9 * A >= 224 * 224 * 4^L

(* clamp(round(4 + log2(sqrt(A) / 224)), 2, 5) *)
ExpectedLevel(A) ==
    IF RoundsToAtLeast(A, 5) THEN 5
    ELSE IF RoundsToAtLeast(A, 4) THEN 4
    ELSE IF RoundsToAtLeast(A, 3) THEN 3
    ELSE 2

(* C14: in dynamic mode every ROI of the batch, a zero-area one included,  *)
(* is assigned exactly one level, the clamp to 2..5 of                     *)
(* round(4 + log2(sqrt(area) / (224 / sqrt(image_area)))), and the level   *)
(* is non-decreasing in the box area.                                      *)
C14_OneLevelPerRoiMonotoneInArea ==
    RouterPass =>
        /\ \A p \in Slots :
              /\ Cardinality({k \in 1..Len(ret.box_to_level) : ret.box_to_level[k] = p}) = 1
              /\ LevelOfSlot(p) \in {2, 3, 4, 5}
              /\ LevelOfSlot(p) = ExpectedLevel(Area(RoiAt(p)))
        /\ \A p \in Slots : \A q \in Slots :
              Area(RoiAt(p)) <= Area(RoiAt(q)) => LevelOfSlot(p) <= LevelOfSlot(q)

(* A batch with a zero-area ROI, an ROI beyond the coarsest level's range  *)
(* and an ROI of a level in between                                        *)
C14_Witness ==
    /\ RouterPass
    /\ \E p \in Slots : RoiAt(p) = ZeroBox /\ LevelOfSlot(p) = 2
    /\ \E p \in Slots : RoundsToAtLeast(Area(RoiAt(p)), 6) /\ LevelOfSlot(p) = 5
    /\ \E p \in Slots : LevelOfSlot(p) \in {3, 4}

(* The slots, in row-major order, whose ROI was cropped by a pass of one   *)
(* of the given levels                                                     *)
SlotsOfLevels(Ls) == SelectSeq(RowMajor(arg.rois, 1), LAMBDA p : LevelOfSlot(p) \in Ls)

BigLevels(level) == IF level = 2 THEN {4, 5} ELSE IF level = 3 THEN {5} ELSE {}

IdsAt(slots) == [k \in 1..Len(slots) |-> arg.roi_cls_gt.ids[slots[k][1]][slots[k][2]]]

(* The levels of {2, 3} with at least one ROI, ascending *)
MetaLevels == SelectSeq(<<2, 3>>, LAMBDA L : Len(SlotsOfLevels({L})) > 0)

RangeOf(seq) == {seq[k] : k \in DOMAIN seq}

(* C15: the big set of level 2 is exactly the ROIs of level 4 or 5, the    *)
(* big set of level 3 exactly the ROIs of level 5, the big set of levels 4 *)
(* and 5 is empty; the big set and the level's own set are disjoint; the   *)
(* output list has one (big class ids, big descriptors, small class ids,   *)
(* small descriptors) tuple per level of {2, 3} with an ROI, in ascending  *)
(* level order, and none for levels 4 and 5.                               *)
C15_BigSetPerLevel ==
    RouterPass =>
        /\ \A L \in {2, 3, 4, 5} :
              /\ Nonzero(BigMask(RoiLevels(arg.rois), L)) = SlotsOfLevels(BigLevels(L))
              /\ RangeOf(Nonzero(BigMask(RoiLevels(arg.rois), L)))
                    \cap RangeOf(Nonzero(LevelMask(RoiLevels(arg.rois), L))) = {}
        /\ ~ret.feat_out.is_none
        /\ [k \in 1..Len(ret.feat_out.list) |-> ret.feat_out.list[k].level] = MetaLevels
        /\ \A k \in 1..Len(ret.feat_out.list) :
              /\ ret.feat_out.list[k].big_box_gt
                    = IdsAt(SlotsOfLevels(BigLevels(ret.feat_out.list[k].level)))
              /\ Len(ret.feat_out.list[k].big_output.of)
                    = Len(SlotsOfLevels(BigLevels(ret.feat_out.list[k].level)))
              /\ \A j \in 1..Len(ret.feat_out.list[k].big_output.of) :
                    /\ ret.feat_out.list[k].big_output.of[j].box
                          = RoiAt(SlotsOfLevels(BigLevels(ret.feat_out.list[k].level))[j])
                    /\ ret.feat_out.list[k].big_output.of[j].img
                          = SlotsOfLevels(BigLevels(ret.feat_out.list[k].level))[j][1]
              /\ ret.feat_out.list[k].small_box_gt
                    = IdsAt(SlotsOfLevels({ret.feat_out.list[k].level}))
              /\ Len(ret.feat_out.list[k].small_output.of)
                    = Len(SlotsOfLevels({ret.feat_out.list[k].level}))

(* A batch with ROIs on each of the four levels *)
C15_Witness ==
    /\ RouterPass
    /\ \A L \in {2, 3, 4, 5} : Len(SlotsOfLevels({L})) > 0
    /\ Len(ret.feat_out.list) = 2
    /\ Len(ret.feat_out.list[1].big_box_gt) = 2
    /\ Len(ret.feat_out.list[2].big_box_gt) = 1

RouterCall == call = "dev_roi" /\ arg.use_dev /\ ~arg.roi_cls_gt.is_none

(* The levels no ROI of the batch is assigned to *)
EmptyLevels == {L \in {2, 3, 4, 5} : \A p \in Slots : ExpectedLevel(Area(RoiAt(p))) # L}

(* All crops of the result: pooled, mask, and those under the descriptors  *)
AllCrops ==
    RangeOf(ret.pooled_out) \cup RangeOf(ret.mask_out)
      \cup UNION {RangeOf(ret.feat_out.list[k].big_output.of)
                    \cup RangeOf(ret.feat_out.list[k].small_output.of) :
                  k \in 1..Len(ret.feat_out.list)}

(* The map a level's own ROIs are cropped from, and their scale factor *)
OwnMap(L) == IF L \in {2, 3} THEN Upsample(FeatureMaps[L - 1]) ELSE FeatureMaps[L - 1]
OwnFactor(L) == IF L \in {2, 3} THEN UPSAMPLE_FAC ELSE 1

ExpectedCrop(size, p) ==
    Crop(size, OwnMap(ExpectedLevel(Area(RoiAt(p)))),
         ScaleBox(RoiAt(p), OwnFactor(ExpectedLevel(Area(RoiAt(p))))), p[1])

(* C16: a level with no ROI is skipped without error: nothing is           *)
(* upsampled or cropped from its map, no big descriptor is extracted       *)
(* against its map and no tuple is output for it, and the crops of the     *)
(* other levels are what they are without it; a level with ROIs but no big *)
(* ROI is processed with empty big class ids and descriptors.              *)
C16_EmptyLevelSkipped ==
    RouterCall =>
        /\ ret.raised = "none"
        /\ \A c \in AllCrops : c.map.level \notin EmptyLevels
        /\ \A k \in 1..Len(ret.feat_out.list) : ret.feat_out.list[k].level \notin EmptyLevels
        /\ \A p \in Slots :
              /\ ret.pooled_out[OutRow(p[1], p[2])] = ExpectedCrop("pool_size", p)
              /\ ret.mask_out[OutRow(p[1], p[2])] = ExpectedCrop("mask_pool_size", p)
        /\ \A k \in 1..Len(ret.feat_out.list) :
              /\ Len(ret.feat_out.list[k].small_box_gt) > 0
              /\ Len(ret.feat_out.list[k].small_output.of) > 0
              /\ Len(SlotsOfLevels(BigLevels(ret.feat_out.list[k].level))) = 0 =>
                    /\ ret.feat_out.list[k].big_box_gt = <<>>
                    /\ ret.feat_out.list[k].big_output.of = <<>>

(* Level 2 has no ROI and is skipped while levels 3 and 4 have ROIs, and   *)
(* level 3 is processed without any big ROI (level 5 is empty).            *)
C16_Witness ==
    /\ RouterCall
    /\ ret.raised = "none"
    /\ EmptyLevels = {2, 5}
    /\ Len(ret.feat_out.list) = 1
    /\ ret.feat_out.list[1].level = 3
    /\ ret.feat_out.list[1].big_box_gt = <<>>
    /\ Len(ret.feat_out.list[1].small_box_gt) > 0

(* The crops under the big descriptors of the k-th output tuple, as the    *)
(* claim has them: from the level's unmodified map, unscaled coordinates   *)
ExpectedBigCrops(k) ==
    [j \in 1..Len(SlotsOfLevels(BigLevels(ret.feat_out.list[k].level))) |->
        Crop("feat_pool_size", FeatureMaps[ret.feat_out.list[k].level - 1],
             RoiAt(SlotsOfLevels(BigLevels(ret.feat_out.list[k].level))[j]),
             SlotsOfLevels(BigLevels(ret.feat_out.list[k].level))[j][1])]

(* C17: an ROI of level 2 or 3 is cropped from the level's upsampled map   *)
(* with its coordinates multiplied by the upsample factor, an ROI of level *)
(* 4 or 5 from the unmodified map with unscaled coordinates, a big ROI     *)
(* from the current level's unmodified map with unscaled coordinates; the  *)
(* scaling acts on a per-level copy, so the ROI tensor passed in is        *)
(* unchanged after the call and across levels.                             *)
C17_CropSourceAndScaling ==
    RouterCall =>
        /\ ret.raised = "none"
        /\ \A p \in Slots :
              /\ ret.pooled_out[OutRow(p[1], p[2])].map
                    = (IF LevelOfSlot(p) \in {2, 3} THEN Upsample(FeatureMaps[LevelOfSlot(p) - 1])
                       ELSE FeatureMaps[LevelOfSlot(p) - 1])
              /\ ret.pooled_out[OutRow(p[1], p[2])].box
                    = (IF LevelOfSlot(p) \in {2, 3} THEN ScaleBox(RoiAt(p), UPSAMPLE_FAC)
                       ELSE RoiAt(p))
              /\ ret.mask_out[OutRow(p[1], p[2])].map = ret.pooled_out[OutRow(p[1], p[2])].map
              /\ ret.mask_out[OutRow(p[1], p[2])].box = ret.pooled_out[OutRow(p[1], p[2])].box
        /\ \A k \in 1..Len(ret.feat_out.list) :
              ret.feat_out.list[k].big_output.of = ExpectedBigCrops(k)
        /\ ret.rois = arg.rois

(* A batch with a nonzero ROI that is scaled on level 2 or 3, a big ROI    *)
(* cropped for both level 2 and level 3, and an ROI of level 4             *)
C17_Witness ==
    /\ RouterCall
    /\ ret.raised = "none"
    /\ \E p \in Slots : LevelOfSlot(p) \in {2, 3} /\ RoiAt(p) # ZeroBox
                          /\ ret.pooled_out[OutRow(p[1], p[2])].box # RoiAt(p)
    /\ \E p \in Slots : LevelOfSlot(p) = 4
    /\ Len(ret.feat_out.list) = 2
    /\ Len(ret.feat_out.list[1].big_output.of) = 2
    /\ Len(ret.feat_out.list[2].big_output.of) = 1

---------------------------------------------------------------------------
(* Claims about sequences of forward calls, checked under SpecModes        *)

ValidPass == call = "forward" /\ arg.mode \in {"inference", "train"}

(* The proposal count handed to proposal_layer in the last pass *)
ProposalCounts == {trace[k].what : k \in {j \in DOMAIN trace : trace[j].op = "proposal_layer"}}

(* C18: over any sequence of forward calls with valid modes the flags in   *)
(* effect in a pass depend on the pass's mode and BN_LEARN only:           *)
(* 'inference' puts every submodule in eval mode, 'train' every submodule  *)
(* in training mode except the batch-norm layers when BN_LEARN is false;   *)
(* the proposal count is the inference count in 'inference' and the        *)
(* training count in 'train'.                                              *)
C18_FlagsByModeOnly ==
    ValidPass =>
        /\ arg.mode = "inference" =>
              /\ training = [net |-> FALSE, bn |-> FALSE]
              /\ ProposalCounts = {"POST_NMS_ROIS_INFERENCE"}
        /\ arg.mode = "train" =>
              /\ training = [net |-> TRUE, bn |-> cfg.bn_learn]
              /\ ProposalCounts = {"POST_NMS_ROIS_TRAINING"}

(* A train pass with BN_LEARN right after an inference pass, itself after  *)
(* a train pass                                                            *)
C18_Witness ==
    /\ ValidPass
    /\ history = <<"train", "inference", "train">>
    /\ cfg.bn_learn
    /\ training = [net |-> TRUE, bn |-> TRUE]

---------------------------------------------------------------------------
(* Claims about the checkpoint renaming script, checked under SpecScript   *)

(* The checkpoint the script is to leave on disk *)
Renamed == Checkpoint(arg.stored.state_dict, arg.stored.epoch + 1, arg.stored.iter)

(* C20: after the script has run to completion, for every stored epoch and *)
(* iter, a file holding the original weights, the original iter and        *)
(* epoch + 1 exists on disk: the old file is removed only after the new    *)
(* file is saved, and the removal never deletes the file just saved (the   *)
(* new path always differs from the old path).                             *)
C20_RenamedCheckpointOnDisk ==
    /\ call = "save" =>
          /\ model_path \in DOMAIN ret.disk
          /\ ret.model_file \in DOMAIN ret.disk
          /\ ret.disk[ret.model_file] = Renamed
    /\ call \in {"save", "remove"} => ret.model_file # model_path
    /\ call = "remove" =>
          /\ ret.model_file \in DOMAIN ret.disk
          /\ ret.disk[ret.model_file] = Renamed
          /\ \E q \in DOMAIN ret.disk : ret.disk[q] = Renamed

===========================================================================
